---- MODULE Spec2Model ----
(***************************************************************************)
(* msal-bearer: the module-level state of msal_bearer/bearerauth.py         *)
(* (_token_location, _username), BearerAuth.get_auth with its cache         *)
(* recovery and silent/interactive ladder, and Authenticator.get_token      *)
(* with its strategy selection.                                             *)
(*                                                                          *)
(* The wrapped libraries (msal, msal_extensions, azure.identity) and the    *)
(* file system are the environment: every call into them is one entry of    *)
(* `log`, with its arguments and the answer the environment chose.          *)
(* A call runs step by step (pc); the program is single-threaded, so the    *)
(* module-level setters and the entry points fire only when pc = "idle".    *)
(*                                                                          *)
(* Spec runs the bearerauth module, SpecAuth the Authenticator on top of    *)
(* it, SpecPublic the three public-client entry points side by side, and    *)
(* SpecUser the username functions in every environment.                   *)
(***************************************************************************)
EXTENDS Integers, Sequences, FiniteSets, TLC

VARIABLES
    _token_location,  \* bearerauth.py:11  module global
    _username,        \* bearerauth.py:12  module global
    disk,             \* the cache files on disk, by location
    auth,             \* the fields of the Authenticator object
    pc,               \* position of the running call ("idle": none)
    entry,            \* the entry point the caller used
    args,             \* the arguments of the running get_auth frame
    scopes,           \* local `scopes` of Authenticator.get_token
    token_location,   \* local `token_location` of get_auth (line 188 rebinds it)
    accounts,         \* local `accounts` of get_auth
    result,           \* local `result` of get_auth
    log,              \* the calls made into the environment, in order
    ret,              \* what the call gave its caller: a value or an error
    headers,          \* r.headers["authorization"] of the request handed to __call__
    atCall,           \* history: the module globals when the call was entered
    passed,            \* history: the arguments the caller passed to the entry point
    carrier,          \* the BearerAuth object the caller constructed
    environ           \* os.environ: the login-name variables of the process

vars == <<_token_location, _username, disk, auth, pc, entry, args, scopes,
          token_location, accounts, result, log, ret, headers, atCall, passed,
          carrier, environ>>

(***************************************************************************)
(* Bounds                                                                   *)
(***************************************************************************)
\* Number of accounts a readable cache file holds.
MaxAccounts == 2
\* Number of scopes in a requested or configured scope list.
MaxScopes == 2

(***************************************************************************)
(* Python values                                                            *)
(***************************************************************************)
\* None where a str is expected (Optional[str]).
NoneStr == "<None>"
\* None where a list is expected (Optional[List[str]]).
NoneList == <<NoneStr>>
\* None where a dict is expected: acquire_token_* returning nothing.
None == [none |-> TRUE]

\* Truthiness of an Optional[str]: None and "" are falsy.
Truthy(s) == s # NoneStr /\ s # ""

\* A value together with its Python type, where the code tests isinstance.
PyStr(s) == [type |-> "str", v |-> s]
\* A non-str value, by the name of its type and its repr.
PyOther(type, repr) == [type |-> type, v |-> repr]

\* "sub in s" for a one-character sub.
Contains(s, ch) == \E i \in 1..Len(s) : SubSeq(s, i, i) = ch

\* What a call gives its caller.
NoRet == [kind |-> "none", type |-> "", value |-> ""]
Return(type, value) == [kind |-> "return", type |-> type, value |-> value]
Raise(type, msg) == [kind |-> "raise", type |-> type, value |-> msg]

(***************************************************************************)
(* Inputs                                                                   *)
(***************************************************************************)
AccountNames == <<"bob", "alice", "carol", "dave">>
ScopeNames == <<"api://app/Calculate.All", "User.Read", "offline_access", "openid">>

\* bearerauth.py:11
DefaultLocation == "token_cache.bin"
AltLocation == "alt.bin"
\* Rejected by set_token_location: too short, and no dot.
ShortLocation == "a.b"
NoDotLocation == "cache"

\* The paths a cache file can be at: _token_location only ever holds a
\* location set_token_location accepted.
Locations == {DefaultLocation, AltLocation}

TenantId == "T"
ClientId == "C"
ClientSecret == "K"
RequestedScopes == SubSeq(ScopeNames, 1, MaxScopes)

\* A cache file: absent, unreadable, or readable with its accounts.
Absent == [exists |-> FALSE, corrupt |-> FALSE, accounts |-> <<>>]
Corrupt == [exists |-> TRUE, corrupt |-> TRUE, accounts |-> <<>>]
Readable == [exists |-> TRUE, corrupt |-> FALSE,
             accounts |-> SubSeq(AccountNames, 1, MaxAccounts)]
FileStates == {Absent, Corrupt, Readable}

\* The answers of the token provider (spec section 6: a success payload with
\* access_token, or an absent or structured failure payload).
SilentResponses ==
    { None,
      [access_token |-> "SILENT"],
      [error |-> "invalid_grant", error_codes |-> {50173}],
      [error |-> "invalid_grant", error_codes |-> {70000}] }
InteractiveResponses ==
    { None,
      [access_token |-> "XYZ"],
      [access_token |-> ""],
      [error |-> "access_denied", error_codes |-> {65004}] }
ExchangeResponses ==
    { None,
      [access_token |-> "APP"],
      [error |-> "invalid_client"],
      [error |-> "invalid_client", error_description |-> "AADSTS7000215"] }
\* DefaultAzureCredential.get_token: an AccessToken (token, expires_on), or
\* the credential chain raises.
AmbientResponses ==
    { [token |-> <<"AZ", 1700000000>>],
      [raises |-> "ClientAuthenticationError"] }

Has(d, key) == key \in DOMAIN d

(***************************************************************************)
(* msal_bearer/bearerauth.py: module-level functions                        *)
(***************************************************************************)
\* bearerauth.py:43  len(location) > 4
MinLocationLength == 4
\* bearerauth.py:216  the error code that sends get_auth to the interactive flow
PasswordChangedCode == 50173

\* bearerauth.py:43
LocationAccepted(s) == Len(s) > MinLocationLength /\ Contains(s, ".")

\* Mutant of SetTokenLocation: the assignment to the global is lost (a missing
\* `global _token_location`).
SetTokenLocationNoAssign(location, cur) ==
    IF location.type = "str"
    THEN IF LocationAccepted(location.v)
         THEN [loc |-> cur, err |-> NoRet]
         ELSE [loc |-> cur,
               err |-> Raise("ValueError", "Invalid location string " \o location.v)]
    ELSE [loc |-> cur, err |-> Raise("TypeError", "Input location shall be a string.")]

\* Mutant of SetTokenLocation: the isinstance test is lost, a non-string is
\* refused like a bad string.
SetTokenLocationNoTypeError(location, cur) ==
    IF location.type = "str" /\ LocationAccepted(location.v)
    THEN [loc |-> location.v, err |-> NoRet]
    ELSE [loc |-> cur,
          err |-> Raise("ValueError", "Invalid location string " \o location.v)]

\* set_token_location(location) with the global at cur: the new value of the
\* global and the error raised, if any.
SetTokenLocation(location, cur) ==
    IF location.type = "str"
    THEN IF LocationAccepted(location.v)
         THEN [loc |-> location.v, err |-> NoRet]
         ELSE [loc |-> cur,
               err |-> Raise("ValueError", "Invalid location string " \o location.v)]
    ELSE [loc |-> cur, err |-> Raise("TypeError", "Input location shall be a string.")]

\* get_token_location()
get_token_location == _token_location

\* get_tenant_authority(tenant_id)
get_tenant_authority(tenant_id) == "https://login.microsoftonline.com/" \o tenant_id

\* str.upper() and str.lower() on the names of the model.
Upper(s) ==
    CASE s = "bob" -> "BOB" [] s = "alice" -> "ALICE"
      [] s = "carol" -> "CAROL" [] s = "dave" -> "DAVE" [] OTHER -> s
Lower(s) ==
    CASE s = "BOB" -> "bob" [] s = "ALICE" -> "alice"
      [] s = "CAROL" -> "carol" [] s = "DAVE" -> "dave" [] OTHER -> s

\* app.get_accounts(username=username) on a readable cache: every account
\* when username is falsy, else the accounts of that name, compared without case.
get_accounts(file, username) ==
    SelectSeq(file.accounts,
              LAMBDA a : ~Truthy(username) \/ Lower(a) = Lower(username))

\* Mutant of os_remove: the deletion is skipped.
os_remove_skipped(d, path) == d

\* os.remove(path)
os_remove(d, path) == [d EXCEPT ![path] = Absent]

\* One attempt of get_app_with_cache(...) followed by app.get_accounts(...):
\* tl is the token_location passed, cur the global, d the disk, fails whether
\* the libraries raise for a reason of their own (authority unreachable,
\* cache directory unreadable, ...). Gives the new global, whether the attempt
\* raised, the error, the accounts listed, and the log entry.
OpenAttempt(client_id, authority, username, tl, cur, d, fails) ==
    LET set == IF Len(tl) > 0 THEN SetTokenLocation(PyStr(tl), cur)
               ELSE [loc |-> cur, err |-> NoRet]
        file == d[set.loc]
        a == [token_location |-> tl, client_id |-> client_id,
              authority |-> authority, username |-> username]
    IN  IF set.err.kind = "raise"
        THEN [loc |-> set.loc, ok |-> FALSE, err |-> set.err, accounts |-> <<>>,
              entry |-> [op |-> "open", a |-> a, r |-> [ok |-> FALSE, path |-> ""]]]
        ELSE IF file.corrupt \/ fails
        THEN [loc |-> set.loc, ok |-> FALSE,
              err |-> Raise("ProviderError",
                            IF file.corrupt THEN "cache unreadable" ELSE "unavailable"),
              accounts |-> <<>>,
              entry |-> [op |-> "open", a |-> a, r |-> [ok |-> FALSE, path |-> set.loc]]]
        ELSE [loc |-> set.loc, ok |-> TRUE, err |-> NoRet,
              accounts |-> get_accounts(file, username),
              entry |-> [op |-> "open", a |-> a, r |-> [ok |-> TRUE, path |-> set.loc]]]

(***************************************************************************)
(* BearerAuth                                                               *)
(***************************************************************************)
\* A dict, by its items; the values are values with their Python type.
PyDict(items) == [type |-> "dict", v |-> items]

\* BearerAuth.__init__(token): a dict with access_result is unwrapped one
\* level; self.token is whatever that leaves, of whatever type.
BearerAuth(token) ==
    IF token.type = "dict" /\ Has(token.v, "access_result")
    THEN [token |-> token.v.access_result]
    ELSE [token |-> token]

\* No BearerAuth object, no arguments.
NoObject == [none |-> TRUE]
NoPassed == [none |-> TRUE]

\* BearerAuth.__call__(r): the authorization header it sets.
BearerHeader(carrierToken) == "Bearer " \o carrierToken

\* Mutants of NeedsInteractive: the 50173 test is dropped; the interactive
\* flow always runs; any error response starts it.
NeedsInteractiveOnlyNone(res) == res = None
NeedsInteractiveAlways(res) == TRUE
NeedsInteractiveOnAnyError(res) == res = None \/ Has(res, "error_codes")

\* bearerauth.py:213-217
NeedsInteractive(res) ==
    res = None \/ (Has(res, "error_codes") /\ PasswordChangedCode \in res.error_codes)

\* bearerauth.py:225-230
IsSuccess(res) ==
    res # None /\ Has(res, "access_token") /\ res.access_token # ""

\* The frame of a get_auth call: its arguments, authority defaulted (180-181).
GetAuthFrame(tenantID, clientID, scopeList, username, tokenLocation, authority) ==
    [tenantID |-> tenantID, clientID |-> clientID, scopes |-> scopeList,
     username |-> username, token_location |-> tokenLocation,
     authority |-> IF authority = NoneStr \/ Len(authority) = 0
                   THEN get_tenant_authority(tenantID) ELSE authority]

NoArgs == [tenantID |-> "", clientID |-> "", scopes |-> <<>>, username |-> "",
           token_location |-> "", authority |-> ""]
NoGlobals == [token_location |-> "", username |-> ""]
Globals == [token_location |-> _token_location, username |-> _username]

\* The variables get_login_name reads, in the order it reads them.
EnvNames == <<"LOGNAME", "USER", "LNAME", "USERNAME">>
\* os.getenv(name): None when unset, else the value, which may be empty.
EnvValues == {NoneStr, "", "carol"}
\* The environment of a login shell: LOGNAME and USER name the user.
LoginEnviron == [name \in {"LOGNAME", "USER", "LNAME", "USERNAME"} |->
                    IF name \in {"LOGNAME", "USER"} THEN "carol" ELSE NoneStr]
\* Every environment: each variable unset, empty or naming the user.
Environments == [{"LOGNAME", "USER", "LNAME", "USERNAME"} -> EnvValues]

\* get_login_name(): the value of the first variable that is not None, and
\* None when the loop ends without one.
get_login_name(env) ==
    LET isSet == {i \in 1..Len(EnvNames) : env[EnvNames[i]] # NoneStr}
    IN  IF isSet = {} THEN NoneStr
        ELSE env[EnvNames[CHOOSE i \in isSet : \A j \in isSet : i <= j]]

\* get_user_name()
get_user_name_value(username, env) ==
    IF ~Truthy(username) THEN get_login_name(env) ELSE username

(***************************************************************************)
(* Initial state: the module just imported, Authenticator() constructed     *)
(* with its defaults, any cache files on disk. The verbose flag of get_auth *)
(* only prints and is left out.                                             *)
(***************************************************************************)
\* Authenticator.set_scope: a str becomes a one-element list.
set_scope_value(scope) == IF scope.type = "str" THEN <<scope.v>> ELSE scope.v

\* Authenticator.__init__: the fields of the new object. authority and
\* redirect_uri are stored and never read, and are left out.
NewAuthenticator(tenant_id, client_id, client_secret, scope) ==
    [tenant_id |-> tenant_id, client_id |-> client_id,
     client_secret |-> client_secret, token |-> "", user_name |-> "",
     scopes |-> IF scope.type # "NoneType" /\ Len(scope.v) > 0
                THEN set_scope_value(scope) ELSE <<>>]

\* The state after import and construction, the Authenticator constructed as
\* `authenticator`, in a process whose environment is one of `environments`.
InitWith(authenticator, environments) ==
    /\ _token_location = DefaultLocation
    /\ _username = ""
    /\ disk \in [Locations -> FileStates]
    /\ auth = authenticator
    /\ pc = "idle"
    /\ entry = ""
    /\ args = NoArgs
    /\ scopes = <<>>
    /\ token_location = ""
    /\ accounts = <<>>
    /\ result = None
    /\ log = <<>>
    /\ ret = NoRet
    /\ headers = NoneStr
    /\ atCall = NoGlobals
    /\ passed = NoPassed
    /\ carrier = NoObject
    /\ environ \in environments

Init ==
    InitWith(NewAuthenticator(NoneStr, NoneStr, NoneStr, PyOther("NoneType", "None")),
             {LoginEnviron})

\* The locals of a call that has not started.
IdleFrame ==
    /\ args' = NoArgs
    /\ scopes' = <<>>
    /\ token_location' = ""
    /\ accounts' = <<>>
    /\ result' = None
    /\ log' = <<>>
    /\ headers' = NoneStr
    /\ atCall' = NoGlobals
    /\ carrier' = NoObject

(***************************************************************************)
(* Module-level setters, called between acquisition calls                   *)
(***************************************************************************)
set_token_location ==
    /\ pc = "idle"
    /\ \E location \in {PyStr(DefaultLocation), PyStr(AltLocation),
                        PyStr(ShortLocation), PyStr(NoDotLocation),
                        PyOther("int", "42")} :
          LET r == SetTokenLocation(location, _token_location)
          IN  /\ _token_location' = r.loc
              /\ ret' = IF r.err.kind = "raise" THEN r.err
                        ELSE Return("NoneType", "None")
              /\ passed' = [location |-> location]
    /\ entry' = "set_token_location"
    /\ args' = NoArgs
    /\ scopes' = <<>>
    /\ token_location' = ""
    /\ accounts' = <<>>
    /\ result' = None
    /\ log' = <<>>
    /\ headers' = NoneStr
    /\ atCall' = Globals
    /\ carrier' = NoObject
    /\ UNCHANGED <<_username, disk, auth, pc, environ>>

set_user_name ==
    /\ pc = "idle"
    /\ \E username \in {"", "alice"} :
          /\ _username' = username
          /\ passed' = [username |-> username]
    /\ entry' = "set_user_name"
    /\ ret' = Return("NoneType", "None")
    /\ IdleFrame
    /\ UNCHANGED <<_token_location, disk, auth, pc, environ>>

\* A caller calls get_user_name().
get_user_name ==
    /\ pc = "idle"
    /\ LET name == get_user_name_value(_username, environ)
       IN  ret' = Return(IF name = NoneStr THEN "NoneType" ELSE "str", name)
    /\ entry' = "get_user_name"
    /\ passed' = NoPassed
    /\ IdleFrame
    /\ UNCHANGED <<_token_location, _username, disk, auth, pc, environ>>

\* The cache file changes between calls: the persistence library writes it
\* after an acquisition, another process writes or damages it, it is removed.
cache_file_changes ==
    /\ pc = "idle"
    /\ \E path \in Locations, f \in FileStates : disk' = [disk EXCEPT ![path] = f]
    /\ UNCHANGED <<_token_location, _username, auth, pc, entry, args, scopes,
                   token_location, accounts, result, log, ret, headers,
                   atCall, passed, carrier, environ>>

(***************************************************************************)
(* BearerAuth.get_auth                                                      *)
(***************************************************************************)
\* Entering get_auth: lines 180-184.
EnterGetAuth(frame) ==
    /\ args' = frame
    /\ token_location' = frame.token_location
    /\ accounts' = <<>>
    /\ result' = None
    /\ log' = <<>>
    /\ ret' = NoRet
    /\ headers' = NoneStr
    /\ atCall' = Globals
    /\ carrier' = NoObject
    /\ pc' = "try"

\* A caller calls BearerAuth.get_auth(...).
get_auth ==
    /\ pc = "idle"
    /\ \E username \in {"", "ALICE"},
          tokenLocation \in {"", AltLocation, ShortLocation},
          authority \in {"", "https://login.example/common"} :
          /\ EnterGetAuth(GetAuthFrame(TenantId, ClientId, RequestedScopes,
                                       username, tokenLocation, authority))
          /\ passed' = [username |-> username, token_location |-> tokenLocation,
                        authority |-> authority]
    /\ entry' = "get_auth"
    /\ scopes' = <<>>
    /\ UNCHANGED <<_token_location, _username, disk, auth, environ>>

\* Mutant of get_token: the wrapper hands the module-level username on to
\* get_auth.
get_token_with_global_username ==
    /\ pc = "idle"
    /\ EnterGetAuth(GetAuthFrame(TenantId, ClientId, RequestedScopes,
                                 Upper(_username), "", ""))
    /\ passed' = [username |-> "", token_location |-> "", authority |-> ""]
    /\ entry' = "get_token"
    /\ scopes' = <<>>
    /\ UNCHANGED <<_token_location, _username, disk, auth, environ>>

\* A caller calls the module-level get_token(tenant_id, client_id, scopes).
get_token ==
    /\ pc = "idle"
    /\ EnterGetAuth(GetAuthFrame(TenantId, ClientId, RequestedScopes, "", "", ""))
    /\ passed' = [username |-> "", token_location |-> "", authority |-> ""]
    /\ entry' = "get_token"
    /\ scopes' = <<>>
    /\ UNCHANGED <<_token_location, _username, disk, auth, environ>>

\* The error of the get_auth frame reaches the caller of every entry point.
Propagate(err) ==
    /\ ret' = err
    /\ pc' = "done"

\* Lines 186-194: the try block.
get_auth_try ==
    /\ pc = "try"
    /\ \E fails \in BOOLEAN :
          LET tl == IF Len(token_location) = 0 THEN get_token_location
                    ELSE token_location
              a == OpenAttempt(args.clientID, args.authority, args.username,
                               tl, _token_location, disk, fails)
          IN  /\ token_location' = tl
              /\ _token_location' = a.loc
              /\ log' = Append(log, a.entry)
              /\ accounts' = a.accounts
              /\ pc' = IF a.ok THEN "silent" ELSE "except"
    /\ UNCHANGED <<_username, disk, auth, entry, args, scopes, result, ret,
                   headers, atCall, passed, carrier, environ>>

\* Lines 195-205: the except block. An error raised in it leaves get_auth.
get_auth_except ==
    /\ pc = "except"
    /\ \E fails \in BOOLEAN :
          LET isfile == disk[_token_location].exists
              d == IF isfile THEN os_remove(disk, _token_location) ELSE disk
              a == OpenAttempt(args.clientID, args.authority, args.username,
                               token_location, _token_location, d, fails)
              checked == [op |-> "isfile", a |-> [path |-> _token_location],
                          r |-> [ok |-> isfile, path |-> _token_location]]
              removed == [op |-> "remove", a |-> [path |-> _token_location],
                          r |-> [ok |-> TRUE, path |-> _token_location]]
          IN  /\ disk' = d
              /\ _token_location' = a.loc
              /\ log' = log \o <<checked>>
                            \o (IF isfile THEN <<removed>> ELSE <<>>)
                            \o <<a.entry>>
              /\ accounts' = a.accounts
              /\ IF a.ok THEN pc' = "silent" /\ ret' = ret
                 ELSE Propagate(a.err)
    /\ UNCHANGED <<_username, auth, entry, args, scopes, token_location,
                   result, headers, atCall, passed, carrier, environ>>

\* Lines 207-211.
get_auth_silent ==
    /\ pc = "silent"
    /\ IF Len(accounts) > 0
       THEN \E r \in SilentResponses :
               /\ result' = r
               /\ log' = Append(log, [op |-> "silent",
                                      a |-> [scopes |-> args.scopes,
                                             account |-> accounts[1]],
                                      r |-> r])
       ELSE UNCHANGED <<result, log>>
    /\ pc' = "check"
    /\ UNCHANGED <<_token_location, _username, disk, auth, entry, args,
                   scopes, token_location, accounts, ret, headers, atCall,
                   passed, carrier, environ>>

\* Lines 213-223.
get_auth_interactive ==
    /\ pc = "check"
    /\ IF NeedsInteractive(result)
       THEN \E r \in InteractiveResponses :
               /\ result' = r
               /\ log' = Append(log, [op |-> "interactive",
                                      a |-> [scopes |-> args.scopes,
                                             domain_hint |-> args.tenantID],
                                      r |-> r])
       ELSE UNCHANGED <<result, log>>
    /\ pc' = "finish"
    /\ UNCHANGED <<_token_location, _username, disk, auth, entry, args,
                   scopes, token_location, accounts, ret, headers, atCall,
                   passed, carrier, environ>>

\* Lines 225-237, and what the wrappers make of the carrier: get_token (line
\* 27) and Authenticator.get_public_app_token (line 136) return its token.
get_auth_finish ==
    /\ pc = "finish"
    /\ IF IsSuccess(result)
       THEN LET made == BearerAuth(PyStr(result.access_token))
            IN  /\ ret' = IF entry = "get_auth"
                          THEN Return("BearerAuth", made.token.v)
                          ELSE Return("str", made.token.v)
                /\ carrier' = IF entry = "get_auth" THEN made ELSE NoObject
       ELSE /\ ret' = Raise("Exception", "Failed authenticating")
            /\ carrier' = NoObject
    /\ pc' = "done"
    /\ UNCHANGED <<_token_location, _username, disk, auth, entry, args,
                   scopes, token_location, accounts, result, log, headers,
                   atCall, passed, environ>>

\* A caller constructs BearerAuth(token) itself: lines 143-147.
BearerAuth_init ==
    /\ pc = "idle"
    /\ \/ passed' = [token |-> PyStr("RAW")]
       \/ passed' = [token |-> PyDict([access_result |-> PyStr("XYZ")])]
       \/ passed' = [token |-> PyDict([access_result |->
                                        PyDict([access_token |-> PyStr("XYZ")])])]
       \/ passed' = [token |-> PyDict([access_token |-> PyStr("XYZ")])]
    /\ carrier' = BearerAuth(passed'.token)
    /\ ret' = Return("BearerAuth", "")
    /\ entry' = "BearerAuth"
    /\ pc' = "done"
    /\ UNCHANGED <<_token_location, _username, disk, auth, args, scopes,
                   token_location, accounts, result, log, headers, atCall,
                   environ>>

\* BearerAuth.__call__(r) on the carrier the caller holds: lines 149-151.
\* "Bearer " + self.token is a TypeError unless self.token is a str.
BearerAuth_call ==
    /\ pc = "done"
    /\ ret.kind = "return" /\ ret.type = "BearerAuth"
    /\ headers = NoneStr
    /\ IF carrier.token.type = "str"
       THEN /\ headers' = BearerHeader(carrier.token.v)
            /\ ret' = ret
       ELSE /\ headers' = headers
            /\ ret' = Raise("TypeError", "can only concatenate str to str")
    /\ UNCHANGED <<_token_location, _username, disk, auth, pc, entry, args,
                   scopes, token_location, accounts, result, log, atCall,
                   passed, carrier, environ>>

\* The caller has its answer; the next call can start.
call_returns ==
    /\ pc = "done"
    /\ pc' = "idle"
    /\ entry' = ""
    /\ ret' = NoRet
    /\ passed' = NoPassed
    /\ IdleFrame
    /\ UNCHANGED <<_token_location, _username, disk, auth, environ>>

Next ==
    \/ set_token_location
    \/ set_user_name
    \/ cache_file_changes
    \/ get_auth
    \/ get_token
    \/ get_auth_try
    \/ get_auth_except
    \/ get_auth_silent
    \/ get_auth_interactive
    \/ get_auth_finish
    \/ BearerAuth_init
    \/ BearerAuth_call
    \/ call_returns

Spec == Init /\ [][Next]_vars

(***************************************************************************)
(* The username functions on their own, in any environment                  *)
(***************************************************************************)
InitUser ==
    InitWith(NewAuthenticator(NoneStr, NoneStr, NoneStr, PyOther("NoneType", "None")),
             Environments)

NextUser ==
    \/ set_user_name
    \/ get_user_name

SpecUser == InitUser /\ [][NextUser]_vars

(***************************************************************************)
(* msal_bearer/authenticator.py: Authenticator                              *)
(***************************************************************************)
Ok(v) == [ok |-> TRUE, v |-> v, err |-> NoRet]
Failed(v, err) == [ok |-> FALSE, v |-> v, err |-> err]

\* Authenticator.get_client_id
get_client_id(a) ==
    IF ~Truthy(a.client_id) THEN Failed("", Raise("ValueError", "Client ID is not set"))
    ELSE Ok(a.client_id)

\* Mutant of get_tenant_id: the tenant id is handed on unchecked.
get_tenant_id_unchecked(a) == Ok(a.tenant_id)

\* Authenticator.get_tenant_id
get_tenant_id(a) ==
    IF ~Truthy(a.tenant_id) THEN Failed("", Raise("ValueError", "Tenant ID is not set"))
    ELSE Ok(a.tenant_id)

\* Mutant of get_scope: the default scope leaves out the client id.
get_scope_without_client_id(a) ==
    IF Len(a.scopes) = 0
    THEN LET c == get_client_id(a)
         IN  IF c.ok THEN Ok(<<"/.default">>) ELSE Failed(<<>>, c.err)
    ELSE Ok(a.scopes)

\* Authenticator.get_scope
get_scope(a) ==
    IF Len(a.scopes) = 0
    THEN LET c == get_client_id(a)
         IN  IF c.ok THEN Ok(<<c.v \o "/.default">>) ELSE Failed(<<>>, c.err)
    ELSE Ok(a.scopes)

\* Mutant of HasPresetToken: the override is not looked at.
HasPresetTokenIgnored(a) == FALSE

\* authenticator.py:79
HasPresetToken(a) == Truthy(a.token)

\* Mutant of SelectStrategy: the client id is tested before the client secret.
SelectStrategyClientIdFirst(a) ==
    IF Truthy(a.client_id) THEN "public"
    ELSE IF Truthy(a.client_secret) THEN "secret"
    ELSE "ambient"

\* authenticator.py:85, 100, 103: the strategy get_token takes, by first match.
SelectStrategy(a) ==
    IF Truthy(a.client_secret) THEN "secret"
    ELSE IF Truthy(a.client_id) THEN "public"
    ELSE "ambient"

\* Mutant of ExchangeOutcome: the message always takes error_description.
ExchangeOutcomeDescriptionOnly(d) ==
    IF d = None THEN Raise("ValueError", "Could not get token.")
    ELSE IF ~Has(d, "access_token")
    THEN Raise("ValueError",
               "Could not get token: "
                   \o (IF Has(d, "error_description") THEN d.error_description
                       ELSE "None"))
    ELSE Return("str", d.access_token)

\* authenticator.py:92-98: what get_token makes of the exchange response d.
ExchangeOutcome(d) ==
    IF d = None THEN Raise("ValueError", "Could not get token.")
    ELSE IF ~Has(d, "access_token")
    THEN Raise("ValueError",
               "Could not get token: "
                   \o (IF Has(d, "error_description") THEN d.error_description
                       ELSE IF Has(d, "error") THEN d.error ELSE "None"))
    ELSE Return("str", d.access_token)

\* authenticator.py:113-115: what get_az_token makes of the credential's answer.
AmbientOutcome(r) ==
    IF Has(r, "raises") THEN Raise(r.raises, "DefaultAzureCredential failed")
    ELSE Return("str", r.token[1])

\* Mutant of get_public_app_token: tenant id and client id change places.
get_public_app_token_ids_swapped(a) ==
    GetAuthFrame(get_client_id(a).v, get_tenant_id(a).v, get_scope(a).v,
                 Upper(a.user_name), "", "")

\* authenticator.py:122-135: the get_auth call of get_public_app_token(),
\* for an Authenticator whose tenant id, client id and scopes are there.
get_public_app_token(a) ==
    GetAuthFrame(get_tenant_id(a).v, get_client_id(a).v, get_scope(a).v,
                 Upper(a.user_name), "", "")

\* Where Authenticator.get_token(sarg) stands when it first calls into the
\* environment, or how it ends before that: lines 79-90, 100-103, 111-114,
\* 122-135.
GetTokenPlan(a, sarg) ==
    LET stop(r) == [pc |-> "done", ret |-> r, scopes |-> <<>>, frame |-> NoArgs]
        go(to, sc, fr) == [pc |-> to, ret |-> NoRet, scopes |-> sc, frame |-> fr]
        s == IF sarg = NoneList THEN get_scope(a) ELSE Ok(sarg)
        c == get_client_id(a)
        t == get_tenant_id(a)
        own == get_scope(a)
    IN  IF HasPresetToken(a) THEN stop(Return("str", a.token))
        ELSE IF ~s.ok THEN stop(s.err)
        ELSE IF SelectStrategy(a) = "secret"
        THEN IF ~c.ok THEN stop(c.err)
             ELSE IF ~t.ok THEN stop(t.err)
             ELSE go("exchange", s.v, NoArgs)
        ELSE IF SelectStrategy(a) = "public"
        THEN IF ~t.ok THEN stop(t.err)
             ELSE IF ~c.ok THEN stop(c.err)
             ELSE IF ~own.ok THEN stop(own.err)
             ELSE go("try", s.v, get_public_app_token(a))
        ELSE IF ~own.ok THEN stop(own.err)
             ELSE IF ~t.ok THEN stop(t.err)
             ELSE go("ambient", s.v, NoArgs)

\* Authenticator(tenant_id, client_id, client_secret, scopes=...)
Authenticator_init ==
    /\ pc = "idle"
    /\ \E tenant_id \in {NoneStr, TenantId}, client_id \in {NoneStr, ClientId},
          client_secret \in {NoneStr, ClientSecret},
          given \in BOOLEAN :
          auth' = NewAuthenticator(tenant_id, client_id, client_secret,
                                   IF given THEN PyOther("list", RequestedScopes)
                                   ELSE PyOther("NoneType", "None"))
    /\ UNCHANGED <<_token_location, _username, disk, pc, entry, args, scopes,
                   token_location, accounts, result, log, ret, headers,
                   atCall, passed, carrier, environ>>

set_client_id ==
    /\ pc = "idle"
    /\ auth' = [auth EXCEPT !.client_id = ClientId]
    /\ UNCHANGED <<_token_location, _username, disk, pc, entry, args, scopes,
                   token_location, accounts, result, log, ret, headers,
                   atCall, passed, carrier, environ>>

set_client_secret ==
    /\ pc = "idle"
    /\ auth' = [auth EXCEPT !.client_secret = ClientSecret]
    /\ UNCHANGED <<_token_location, _username, disk, pc, entry, args, scopes,
                   token_location, accounts, result, log, ret, headers,
                   atCall, passed, carrier, environ>>

set_token ==
    /\ pc = "idle"
    /\ \E token \in {"", "PRESET"} : auth' = [auth EXCEPT !.token = token]
    /\ UNCHANGED <<_token_location, _username, disk, pc, entry, args, scopes,
                   token_location, accounts, result, log, ret, headers,
                   atCall, passed, carrier, environ>>

set_scope ==
    /\ pc = "idle"
    /\ \/ auth' = [auth EXCEPT !.scopes = set_scope_value(PyStr(ScopeNames[1]))]
       \/ auth' = [auth EXCEPT
                     !.scopes = set_scope_value(PyOther("list", RequestedScopes))]
    /\ UNCHANGED <<_token_location, _username, disk, pc, entry, args, scopes,
                   token_location, accounts, result, log, ret, headers,
                   atCall, passed, carrier, environ>>

\* A caller calls Authenticator.get_token(scopes): up to the first call into
\* the environment.
Authenticator_get_token ==
    /\ pc = "idle"
    /\ \E sarg \in {NoneList, <<ScopeNames[MaxScopes + 1]>>} :
          LET p == GetTokenPlan(auth, sarg)
          IN  /\ pc' = p.pc
              /\ ret' = p.ret
              /\ passed' = [scopes |-> sarg]
              /\ scopes' = p.scopes
              /\ args' = p.frame
              /\ token_location' = p.frame.token_location
    /\ entry' = "Authenticator.get_token"
    /\ accounts' = <<>>
    /\ result' = None
    /\ log' = <<>>
    /\ headers' = NoneStr
    /\ atCall' = Globals
    /\ carrier' = NoObject
    /\ UNCHANGED <<_token_location, _username, disk, auth, environ>>

\* authenticator.py:86-98
get_token_exchange ==
    /\ pc = "exchange"
    /\ \E d \in ExchangeResponses :
          /\ log' = Append(log,
                 [op |-> "exchange",
                  a |-> [client_id |-> get_client_id(auth).v,
                         client_credential |-> auth.client_secret,
                         authority |-> get_tenant_authority(get_tenant_id(auth).v),
                         scopes |-> scopes],
                  r |-> d])
          /\ ret' = ExchangeOutcome(d)
    /\ pc' = "done"
    /\ UNCHANGED <<_token_location, _username, disk, auth, entry, args,
                   scopes, token_location, accounts, result, headers, atCall,
                   passed, carrier, environ>>

\* authenticator.py:111-115, on self.get_scope() (line 103)
get_az_token ==
    /\ pc = "ambient"
    /\ \E r \in AmbientResponses :
          /\ log' = Append(log,
                 [op |-> "ambient",
                  a |-> [scope |-> get_scope(auth).v[1],
                         tenant_id |-> get_tenant_id(auth).v],
                  r |-> r])
          /\ ret' = AmbientOutcome(r)
    /\ pc' = "done"
    /\ UNCHANGED <<_token_location, _username, disk, auth, entry, args,
                   scopes, token_location, accounts, result, headers, atCall,
                   passed, carrier, environ>>

NextAuth ==
    \/ set_token_location
    \/ set_user_name
    \/ cache_file_changes
    \/ Authenticator_init
    \/ set_client_id
    \/ set_client_secret
    \/ set_token
    \/ set_scope
    \/ Authenticator_get_token
    \/ get_token_exchange
    \/ get_az_token
    \/ get_auth_try
    \/ get_auth_except
    \/ get_auth_silent
    \/ get_auth_interactive
    \/ get_auth_finish
    \/ call_returns

SpecAuth == Init /\ [][NextAuth]_vars

(***************************************************************************)
(* The three public-client entry points side by side, as in                *)
(* examples/demo_public_token.py: BearerAuth.get_auth, get_token and        *)
(* Authenticator(tenant_id, client_id, scopes=...).get_token().             *)
(***************************************************************************)
InitPublic ==
    InitWith(NewAuthenticator(TenantId, ClientId, NoneStr,
                              PyOther("list", RequestedScopes)),
             {LoginEnviron})

NextPublic ==
    \/ set_token_location
    \/ set_user_name
    \/ cache_file_changes
    \/ set_token
    \/ get_auth
    \/ get_token
    \/ Authenticator_get_token
    \/ get_auth_try
    \/ get_auth_except
    \/ get_auth_silent
    \/ get_auth_interactive
    \/ get_auth_finish
    \/ BearerAuth_call
    \/ call_returns

SpecPublic == InitPublic /\ [][NextPublic]_vars

(***************************************************************************)
(* Properties                                                               *)
(***************************************************************************)
\* The positions in log of the calls of one operation, and their number.
Ops(op) == {i \in DOMAIN log : log[i].op = op}
Count(op) == Cardinality(Ops(op))
EndsWith(s, t) == Len(s) >= Len(t) /\ SubSeq(s, Len(s) - Len(t) + 1, Len(s)) = t

InAuthenticatorCall == entry = "Authenticator.get_token"
InGetAuthCall == entry \in {"get_auth", "get_token"}

\* The answer of the silent acquisition of this call, None when there was none.
SilentResult ==
    IF Ops("silent") = {} THEN None ELSE log[CHOOSE i \in Ops("silent") : TRUE].r
\* The answers of the open attempts of this call, in order.
OpenResults == [k \in 1..Count("open") |->
                  log[CHOOSE i \in Ops("open") :
                        Cardinality({j \in Ops("open") : j <= i}) = k].r]
FirstOpenFailed == Count("open") >= 1 /\ ~OpenResults[1].ok
RetryFailed == Count("open") >= 2 /\ ~OpenResults[2].ok
RetrySucceeded == Count("open") >= 2 /\ OpenResults[2].ok
AfterAcquisition == pc \in {"finish", "done"} /\ \E k \in DOMAIN OpenResults : OpenResults[k].ok
FailedAuthenticating == Raise("Exception", "Failed authenticating")

\* C1: with a non-empty pre-set token, every Authenticator.get_token call,
\* whatever its scopes argument and the other fields, returns exactly that
\* token and calls nothing in the environment.
C1_PresetTokenReturned ==
    (InAuthenticatorCall /\ auth.token # "")
        => /\ pc = "done"
           /\ ret = Return("str", auth.token)
           /\ log = <<>>

C1_Witness ==
    /\ InAuthenticatorCall /\ pc = "done"
    /\ auth.token = "PRESET" /\ auth.client_secret = ClientSecret
    /\ auth.client_id = ClientId
    /\ ret = Return("str", "PRESET")

\* The operations each strategy may call.
StrategyOps(strategy) ==
    CASE strategy = "secret" -> {"exchange"}
      [] strategy = "public" -> {"open", "isfile", "remove", "silent", "interactive"}
      [] strategy = "ambient" -> {"ambient"}
\* The strategy the claim names for the fields of the Authenticator.
FirstMatch ==
    IF auth.client_secret \notin {NoneStr, ""} THEN "secret"
    ELSE IF auth.client_id \notin {NoneStr, ""} THEN "public"
    ELSE "ambient"

\* C2: without a pre-set token, a get_token call only ever calls operations
\* of the one strategy chosen by first match (client secret, else client id,
\* else ambient lookup of the first scope with the tenant id as hint); the
\* exchange and the ambient lookup are tried at most once, a token returned
\* comes from that strategy, and a failure does not start another strategy.
C2_OneStrategyFirstMatch ==
    (InAuthenticatorCall /\ auth.token = "")
        => /\ \A i \in DOMAIN log : log[i].op \in StrategyOps(FirstMatch)
           /\ Count("exchange") <= 1
           /\ Count("ambient") <= 1
           /\ \A i \in Ops("ambient") :
                 log[i].a = [scope |-> Head(auth.scopes), tenant_id |-> auth.tenant_id]
           /\ (pc = "done" /\ ret.kind = "return") => log # <<>>
           /\ (pc = "done" /\ Count("exchange") = 1) => Len(log) = 1
           /\ (pc = "done" /\ Count("ambient") = 1) => Len(log) = 1

C2_Witness ==
    /\ InAuthenticatorCall /\ pc = "done" /\ auth.token = ""
    /\ auth.client_secret = ClientSecret /\ auth.client_id = ClientId
    /\ ret.kind = "raise"
    /\ Count("exchange") = 1 /\ Len(log) = 1

\* C3: on the client-secret path (secret, client id and tenant id set, no
\* pre-set token) the call makes the exchange and nothing else; a response
\* with access_token is returned as that string; an absent response or one
\* without access_token makes the call fail with a ValueError (the class of
\* the configuration errors) whose message ends with the provider's
\* error_description, or with its error field when it has no description.
C3_ExchangeOutcome ==
    ( /\ InAuthenticatorCall /\ pc = "done" /\ auth.token = ""
      /\ Truthy(auth.client_secret) /\ Truthy(auth.client_id)
      /\ Truthy(auth.tenant_id) )
        => /\ Len(log) = 1 /\ log[1].op = "exchange"
           /\ LET d == log[1].r
              IN  IF Has(d, "access_token")
                  THEN ret = Return("str", d.access_token)
                  ELSE /\ ret.kind = "raise"
                       /\ ret.type = "ValueError"
                       /\ Has(d, "error_description")
                             => EndsWith(ret.value, d.error_description)
                       /\ (Has(d, "error") /\ ~Has(d, "error_description"))
                             => EndsWith(ret.value, d.error)

C3_Witness ==
    /\ InAuthenticatorCall /\ pc = "done" /\ auth.token = ""
    /\ Len(log) = 1 /\ log[1].op = "exchange"
    /\ log[1].r = [error |-> "invalid_client"]
    /\ ret.kind = "raise"

\* C4: interactive acquisition is called at most once in a get_auth call,
\* always with the requested scopes and the tenant id as domain hint, and
\* exactly once when the silent acquisition gave no result (no account
\* matched, or it returned nothing) or an error response with code 50173.
C4_InteractiveOnceWhenNeeded ==
    /\ Count("interactive") <= 1
    /\ \A i \in Ops("interactive") :
          log[i].a = [scopes |-> args.scopes, domain_hint |-> args.tenantID]
    /\ ( /\ AfterAcquisition
         /\ \/ SilentResult = None
            \/ (Has(SilentResult, "error_codes") /\ 50173 \in SilentResult.error_codes) )
          => Count("interactive") = 1

C4_Witness ==
    /\ pc = "done" /\ entry = "get_auth"
    /\ Has(SilentResult, "error_codes") /\ 50173 \in SilentResult.error_codes
    /\ Count("interactive") = 1

\* C5: when an account matched and the silent acquisition against the first
\* matching account returned a non-empty access_token, the call never calls
\* interactive acquisition and returns a carrier holding that token.
C5_SilentSuccessNoInteractive ==
    ( /\ pc \in {"finish", "done"}
      /\ Has(SilentResult, "access_token") /\ SilentResult.access_token # "" )
        => /\ Count("interactive") = 0
           /\ \A i \in Ops("silent") :
                 /\ log[i].a.scopes = args.scopes
                 /\ log[i].a.account
                      = Head(get_accounts(disk[_token_location], args.username))
           /\ pc = "done"
                 => /\ ret.kind = "return"
                    /\ ret.value = SilentResult.access_token
                    /\ entry = "get_auth" => ret.type = "BearerAuth"

C5_Witness ==
    /\ pc = "done" /\ entry = "get_auth"
    /\ SilentResult = [access_token |-> "SILENT"]
    /\ ret = Return("BearerAuth", "SILENT")

\* The silent acquisition answered with an error whose codes lack 50173.
SilentOtherError ==
    /\ pc \in {"finish", "done"}
    /\ Has(SilentResult, "error_codes")
    /\ 50173 \notin SilentResult.error_codes
    /\ ~Has(SilentResult, "access_token")

\* C6 as stated: after a silent error without code 50173 the interactive
\* acquisition is still called exactly once.
C6_Original == SilentOtherError => Count("interactive") = 1

\* C6 amended: after a silent error response whose codes do not include
\* 50173 the interactive acquisition is not called, and the call fails with
\* "Failed authenticating" on the silent result.
C6_SilentOtherErrorFails ==
    SilentOtherError
        => /\ Count("interactive") = 0
           /\ result = SilentResult
           /\ pc = "done" => ret = FailedAuthenticating

C6_Witness ==
    /\ pc = "done" /\ entry = "get_auth"
    /\ SilentOtherError
    /\ ret = FailedAuthenticating

C8_SecondFailureIsAuthenticationError ==
    (pc = "done" /\ FirstOpenFailed /\ RetryFailed)
        => /\ Count("open") = 2
           /\ Count("silent") = 0 /\ Count("interactive") = 0
           /\ ret = FailedAuthenticating

\* The part of C8 the code keeps: no third attempt, no acquisition, an error.
C8_SecondFailureEndsCall ==
    (FirstOpenFailed /\ RetryFailed)
        => /\ pc = "done"
           /\ Count("open") = 2
           /\ Count("silent") = 0 /\ Count("interactive") = 0
           /\ ret.kind = "raise"

\* C9 as stated: get_auth returns a carrier exactly when the final
\* acquisition result has a non-empty access_token; the carrier holds that
\* token and sets the header to "Bearer " + token; every other call raises
\* "Failed authenticating".
C9_CarrierIffSuccess ==
    (pc = "done" /\ entry = "get_auth")
        => LET success == /\ Count("silent") + Count("interactive") >= 1
                          /\ Has(result, "access_token")
                          /\ result.access_token # ""
           IN  /\ (ret.kind = "return") <=> success
               /\ success
                     => /\ ret = Return("BearerAuth", result.access_token)
                        /\ ret.value # ""
                        /\ headers \in {NoneStr, "Bearer " \o result.access_token}
               /\ ~success => ret = FailedAuthenticating

\* The part of C9 the code keeps: the same, for the calls that reached the
\* acquisition.
C9_CarrierIffSuccessAfterAcquisition ==
    (pc = "done" /\ entry = "get_auth" /\ AfterAcquisition)
        => C9_CarrierIffSuccess

\* C10 as stated: a get_auth call leaves the module globals as they were
\* when it was entered.
C10_Original ==
    (InGetAuthCall /\ pc # "idle")
        => /\ _token_location = atCall.token_location
           /\ _username = atCall.username

\* The in-call part of C10 amended: a get_auth call leaves the global username unchanged; it
\* leaves the global token-cache location unchanged unless its token_location
\* argument is a valid location (longer than 4 characters, with a dot), and
\* then the first open attempt sets the global to that argument, where it
\* stays; every cache the call opens is at the global location of that moment.
C10_InCall ==
    (InGetAuthCall /\ pc # "idle")
        => /\ _username = atCall.username
           /\ _token_location
                = IF /\ pc # "try"
                     /\ Len(args.token_location) > 4
                     /\ Contains(args.token_location, ".")
                  THEN args.token_location
                  ELSE atCall.token_location
           /\ \A i \in Ops("open") : log[i].r.ok => log[i].r.path = _token_location

\* C10 amended, with the return to the caller: what the call left in the
\* globals is what the next call finds.
C10_LocationArgumentPersists ==
    /\ []C10_InCall
    /\ [][(pc = "done" /\ pc' = "idle")
            => (_token_location' = _token_location /\ _username' = _username)]_vars

C10_Witness ==
    /\ pc = "done" /\ entry = "get_auth"
    /\ args.token_location = AltLocation
    /\ atCall.token_location = DefaultLocation
    /\ _token_location = AltLocation
    /\ ret.kind = "return"

\* C11: a BearerAuth constructed from a raw string or from a dict holding
\* access_result has a plain string as its token, and no construction leaves
\* a dict or another non-string as the token that __call__ concatenates.
C11_TokenIsPlainString ==
    entry = "BearerAuth"
        => /\ carrier.token.type = "str"
           /\ ret.kind = "return"
           /\ headers \in {NoneStr, "Bearer " \o carrier.token.v}

\* C12 (state part): a set_token_location(L) call with L a string longer than
\* 4 characters that has a dot returns and leaves the global, and so
\* get_token_location(), at L; with any other argument it raises (TypeError
\* for a non-string, ValueError otherwise) and leaves the global as it was.
\* A get_auth call that omits token_location opens the cache at the global
\* location it found on entry, in every attempt, and never moves the global.
C12_SetThenUsed ==
    /\ entry = "set_token_location"
          => LET location == passed.location
             IN  IF /\ location.type = "str"
                    /\ Len(location.v) > 4
                    /\ Contains(location.v, ".")
                 THEN /\ ret = Return("NoneType", "None")
                      /\ get_token_location = location.v
                 ELSE /\ ret.kind = "raise"
                      /\ ret.type = IF location.type = "str" THEN "ValueError"
                                    ELSE "TypeError"
                      /\ get_token_location = atCall.token_location
    /\ (InGetAuthCall /\ passed.token_location = "")
          => /\ get_token_location = atCall.token_location
             /\ \A i \in Ops("open") :
                   /\ log[i].a.token_location = atCall.token_location
                   /\ log[i].r.path = atCall.token_location

\* C12: the token-cache location is one process-global that starts at
\* "token_cache.bin"; it moves only in a set_token_location call or in an
\* open attempt of a get_auth call that passes token_location; what a
\* successful set_token_location(L) leaves is what get_token_location returns
\* and where every later get_auth call that omits token_location opens the
\* cache; a refused set_token_location leaves it unchanged.
C12_GlobalLocation ==
    /\ get_token_location = "token_cache.bin"
    /\ []C12_SetThenUsed
    /\ [][get_token_location' # get_token_location
            => \/ entry' = "set_token_location"
               \/ pc \in {"try", "except"} /\ passed.token_location # ""]_vars

C12_Witness ==
    /\ entry = "get_auth" /\ pc = "done"
    /\ passed.token_location = ""
    /\ atCall.token_location = AltLocation
    /\ \E i \in Ops("open") : log[i].r.ok /\ log[i].r.path = AltLocation
    /\ ret.kind = "return"

\* An acquisition call that passes no username of its own: get_auth with
\* username omitted, the module-level get_token, Authenticator.get_token.
OmitsUsername ==
    \/ InGetAuthCall /\ passed.username = ""
    \/ InAuthenticatorCall

C14_DefaultScope ==
    (InAuthenticatorCall /\ passed.scopes = NoneList /\ auth.token = "")
        => \A i \in Ops("exchange") \cup Ops("silent") \cup Ops("interactive") :
              log[i].a.scopes = IF auth.scopes = <<>>
                                THEN <<auth.client_id \o "/.default">>
                                ELSE auth.scopes

C14_Witness ==
    /\ InAuthenticatorCall /\ pc = "done"
    /\ passed.scopes = NoneList /\ auth.token = ""
    /\ auth.scopes = <<>> /\ auth.client_secret = NoneStr
    /\ \E i \in Ops("silent") : log[i].a.scopes = <<"C/.default">>
    /\ \E i \in Ops("interactive") : log[i].a.scopes = <<"C/.default">>

\* A required identity field is missing for the call: no client secret, no
\* client id and no scopes at all; or the tenant id is unset; or the client
\* secret is set and the client id is not.
MissingIdentity ==
    \/ /\ ~Truthy(auth.client_secret) /\ ~Truthy(auth.client_id)
       /\ auth.scopes = <<>> /\ passed.scopes = NoneList
    \/ ~Truthy(auth.tenant_id)
    \/ Truthy(auth.client_secret) /\ ~Truthy(auth.client_id)

\* The call without a pre-set token failed after it had called its strategy.
StrategyFailed ==
    /\ InAuthenticatorCall /\ auth.token = ""
    /\ pc = "done" /\ ret.kind = "raise" /\ log # <<>>

\* The first half of C15: with no pre-set token and a required identity field
\* missing, get_token fails with a ValueError before it calls anything.
C15_MissingFieldFailsFirst ==
    (InAuthenticatorCall /\ auth.token = "" /\ MissingIdentity)
        => /\ pc = "done"
           /\ ret.kind = "raise" /\ ret.type = "ValueError"
           /\ log = <<>>

\* C15 as stated: ... and a failure of the strategy itself is reported as an
\* error of another class than the configuration errors.
C15_Original ==
    /\ C15_MissingFieldFailsFirst
    /\ StrategyFailed => ret.type # "ValueError"

\* C15 amended: with no pre-set token and a required identity field missing,
\* get_token fails with a ValueError before it calls anything. A failure of
\* the strategy itself is an error of another class on the public-client
\* path and on the ambient path, but a failed confidential exchange is a
\* ValueError, the class of the configuration errors.
C15_ConfigurationErrorFirst ==
    /\ C15_MissingFieldFailsFirst
    /\ StrategyFailed => (ret.type = "ValueError" <=> Ops("exchange") # {})

C15_Witness ==
    /\ InAuthenticatorCall /\ auth.token = "" /\ pc = "done"
    /\ auth.client_secret = ClientSecret /\ auth.client_id = ClientId
    /\ auth.tenant_id = NoneStr
    /\ ret = Raise("ValueError", "Tenant ID is not set")
    /\ log = <<>>

\* The first of the four variables, in the order LOGNAME, USER, LNAME,
\* USERNAME, whose value is non-empty; "" when there is none.
FirstNonEmptyLoginName ==
    LET nonEmpty == {i \in 1..Len(EnvNames) : Truthy(environ[EnvNames[i]])}
    IN  IF nonEmpty = {} THEN ""
        ELSE environ[EnvNames[CHOOSE i \in nonEmpty : \A j \in nonEmpty : i <= j]]

\* C16: get_user_name returns the username that was set when it is non-empty;
\* otherwise the first non-empty value of LOGNAME, USER, LNAME, USERNAME, read
\* in that order, a variable that is set but empty being skipped; and an empty
\* result (None or "") when no variable has a value.
C16_FirstNonEmptyLoginName ==
    entry = "get_user_name"
        => IF _username # "" THEN ret = Return("str", _username)
           ELSE IF FirstNonEmptyLoginName # ""
           THEN ret = Return("str", FirstNonEmptyLoginName)
           ELSE ret.kind = "return" /\ ret.value \in {NoneStr, ""}

\* A public-client call with nothing but tenant id, client id and scopes:
\* BearerAuth.get_auth(tenantID, clientID, scopes), get_token(tenant_id,
\* client_id, scopes), Authenticator(tenant_id, client_id, scopes).get_token().
PlainPublicCall ==
    \/ /\ InGetAuthCall
       /\ passed = [username |-> "", token_location |-> "", authority |-> ""]
    \/ InAuthenticatorCall /\ auth.token = "" /\ passed.scopes = NoneList

\* The cache (opened, and on a failure tested, removed and opened again)
\* before silent before interactive.
OpRank(op) == CASE op \in {"open", "isfile", "remove"} -> 1 [] op = "silent" -> 2
                [] op = "interactive" -> 3 [] OTHER -> 0

\* C17: the three public-client entry points, given the same tenant id,
\* client id and scopes, run the same get_auth frame and so make the same
\* calls with the same arguments: the cache opened at the global location for
\* that client id and the tenant's authority with no account filter (on a
\* failure the file there tested, removed and opened once more), the
\* silent acquisition with the scopes and the first cached account, the
\* interactive acquisition with the scopes and the tenant id as domain hint,
\* in that order; the token each yields is the access_token of the last
\* acquisition's answer. With a token set by set_token the Authenticator
\* returns that token and calls nothing.
C17_SameOperations ==
    /\ PlainPublicCall
          => /\ args = GetAuthFrame(TenantId, ClientId, RequestedScopes, "", "", "")
             /\ \A i \in DOMAIN log :
                   /\ OpRank(log[i].op) > 0
                   /\ \A j \in DOMAIN log : i < j => OpRank(log[i].op) <= OpRank(log[j].op)
             /\ \A i \in Ops("open") :
                   log[i].a = [token_location |-> atCall.token_location,
                               client_id |-> ClientId,
                               authority |-> "https://login.microsoftonline.com/T",
                               username |-> ""]
             /\ \A i \in Ops("isfile") \cup Ops("remove") :
                   log[i].a = [path |-> atCall.token_location]
             /\ \A i \in Ops("silent") :
                   /\ log[i].a.scopes = RequestedScopes
                   /\ log[i].a.account = Head(disk[atCall.token_location].accounts)
             /\ \A i \in Ops("interactive") :
                   log[i].a = [scopes |-> RequestedScopes, domain_hint |-> TenantId]
             /\ (pc = "done" /\ ret.kind = "return")
                   => /\ log[Len(log)].op \in {"silent", "interactive"}
                      /\ ret.value = log[Len(log)].r.access_token
                      /\ entry = "get_auth" => carrier.token = PyStr(ret.value)
    /\ (InAuthenticatorCall /\ auth.token # "")
          => ret = Return("str", auth.token) /\ log = <<>>

C17_Witness ==
    /\ InAuthenticatorCall /\ auth.token = "" /\ pc = "done"
    /\ passed.scopes = NoneList
    /\ Len(log) = 3
    /\ log[2].op = "silent" /\ log[3].op = "interactive"
    /\ ret = Return("str", log[3].r.access_token)

\* C18: the only file a get_auth call deletes in its recovery is the cache
\* file at the location its failed open attempt was asked to use, the
\* token_location argument when one was passed and the global location
\* otherwise; when the attempt failed because the argument was refused, no
\* file at another, previously configured location is deleted.
C18_OnlyRequestedCacheDeleted ==
    InGetAuthCall
        => \A i \in Ops("remove") :
              log[i].a.path = IF passed.token_location # ""
                              THEN passed.token_location
                              ELSE atCall.token_location

\* C19: an Authenticator.get_token call with an explicit scopes argument and
\* no pre-set token acquires with exactly those scopes on every path (the
\* confidential exchange, the silent and interactive acquisitions of the
\* public path, the ambient lookup of the first scope), not with the
\* configured or the default scopes; and it does not fail for want of
\* configured scopes.
C19_PassedScopesUsed ==
    (InAuthenticatorCall /\ auth.token = "" /\ passed.scopes # NoneList)
        => /\ \A i \in Ops("exchange") \cup Ops("silent") \cup Ops("interactive") :
                 log[i].a.scopes = passed.scopes
           /\ \A i \in Ops("ambient") : log[i].a.scope = Head(passed.scopes)
           /\ ( /\ pc = "done" /\ auth.scopes = <<>>
                /\ ~Truthy(auth.client_secret) /\ ~Truthy(auth.client_id)
                /\ Truthy(auth.tenant_id) )
                 => log # <<>>
====
